---- MODULE Spec2Model ----
(***************************************************************************)
(* Model of the crawl engine of books_parser.py:                           *)
(*   make_request      the retrying HTTP fetch            (SpecFetch)      *)
(*   parse_book_card   the fields of one card             (SpecCard)       *)
(*   scrape_all_pages  the page walk over scrape_page     (SpecWalk)       *)
(*   scrape_all_pages  the enrichment pass, lines 543-570 (SpecEnrich)     *)
(*   scrape_all_pages  that pass, with slow tasks         (SpecSlow)       *)
(*   scrape_all_pages  the executor of that pass          (SpecPool)       *)
(*   scrape_all_pages  walk and enrichment together       (SpecCrawl)      *)
(* Delays are in whole seconds.  A Python dict is a function whose domain  *)
(* is its key set; an Optional record is a list of at most one record.     *)
(***************************************************************************)
EXTENDS Integers, Sequences, FiniteSets, TLC

VARIABLES
    config,        \* the config dict handed to every function
    f_pc,          \* make_request: "idle", "loop" or "returned"
    attempt,       \* make_request: the loop variable `attempt`
    trace,         \* make_request: the GETs issued and the sleeps taken, in order
    result,        \* make_request: "pending", "response" or "None"
    pc,            \* scrape_all_pages: "idle", "walk", "submit", "collect", "done"
    max_pages,     \* scrape_all_pages argument: NoneValue or an integer >= 0
    get_detailed,  \* scrape_all_pages argument
    site,          \* the catalog: page -> the page its next link names (0: none)
    current_url,   \* scrape_all_pages: the URL of the page to fetch, or NoUrl
    page_num,      \* scrape_all_pages: the page counter
    all_books,     \* detailed mode: the base records of the walk
    detail_urls,   \* detailed mode: the url of every base record
    books_data,    \* the list scrape_all_pages returns
    fetchLog,      \* every scrape_page call of the walk, in order
    book_dict,     \* detailed mode: the url -> record index (insertion ordered)
    futures,       \* detailed mode: one future per element of detail_urls
    input_card,    \* parse_book_card: the card handed to it
    parsed,        \* parse_book_card: whether it has returned, and what
    pool           \* ThreadPoolExecutor: how many tasks are queued, running, finished

vars == <<config, f_pc, attempt, trace, result, pc, max_pages, get_detailed,
          site, current_url, page_num, all_books, detail_urls, books_data,
          fetchLog, book_dict, futures, input_card, parsed, pool>>

fetchVars == <<f_pc, attempt, trace, result>>
walkVars == <<pc, max_pages, get_detailed, site, current_url, page_num,
              all_books, detail_urls, books_data, fetchLog>>
enrichVars == <<book_dict, futures>>
cardVars == <<input_card, parsed>>

(***************************************************************************)
(* Bounds of the model and constants of the program.                       *)
(***************************************************************************)
MaxRetriesBound == 3     \* max_retries ranges over 0..MaxRetriesBound
NPages == 2              \* the catalog has pages 1..NPages
MaxBooks == 3            \* the enrichment pass is given at most MaxBooks base records
MaxChunks == 3           \* a text of a parsed card is made of at most MaxChunks pieces
MaxTasks == 22           \* the executor on its own is given at most MaxTasks tasks
MaxSlowBooks == 2        \* the pass under the program's timeout starts from at most MaxSlowBooks records
MIN_DELAY == 1
MAX_DELAY == 3
MAX_WORKERS_VALUE == 20
REQUEST_TIMEOUT == 10

Min(a, b) == IF a <= b THEN a ELSE b

NoneValue == -1          \* stands for Python's None where an integer may be
NoUrl == [http |-> FALSE, page |-> 0]      \* current_url = None

\* f"https://{BASE_URL}", and a base_url given without its scheme
BaseUrls == {[http |-> TRUE, path |-> <<>>], [http |-> FALSE, path |-> <<"host">>]}

(***************************************************************************)
(* make_request                                                            *)
(***************************************************************************)
\* What one session.get can end in: a response with a status code, or one of
\* the exceptions make_request has a handler for.
StatusCodes == {101, 200, 204, 302, 404, 500, 599}
Exceptions == {"ConnectionError", "Timeout", "TooManyRedirects", "HTTPError",
               "Exception"}
Outcomes == {[exc |-> "none", code |-> c] : c \in StatusCodes}
            \cup {[exc |-> e, code |-> 0] : e \in Exceptions}

\* What make_request does with the outcome of one attempt.
Classify_Retry4xx(o) ==
    IF o.exc = "none"
    THEN IF o.code = 200 THEN "return_response" ELSE "retry"
    ELSE IF o.exc = "TooManyRedirects" THEN "return_none" ELSE "retry"

Classify_Accept2xx(o) ==
    IF o.exc = "none"
    THEN IF 200 <= o.code /\ o.code < 300 THEN "return_response"
         ELSE IF 500 <= o.code /\ o.code < 600 THEN "retry"
         ELSE "return_none"
    ELSE IF o.exc = "TooManyRedirects" THEN "return_none" ELSE "retry"

Classify_OkStatus(o) ==
    IF o.exc = "none"
    THEN IF o.code < 400 THEN "return_response"
         ELSE IF 500 <= o.code /\ o.code < 600 THEN "retry"
         ELSE "return_none"
    ELSE IF o.exc = "TooManyRedirects" THEN "return_none" ELSE "retry"

Classify(o) ==
    IF o.exc = "none"
    THEN IF o.code = 200 THEN "return_response"
         ELSE IF 500 <= o.code /\ o.code < 600 THEN "retry"
         ELSE "return_none"
    ELSE IF o.exc = "TooManyRedirects" THEN "return_none" ELSE "retry"

\* for attempt in range(config['max_retries'] + 1)
InRange_OneMore(cfg, k) == k < cfg.max_retries + 2

InRange(cfg, k) == k < cfg.max_retries + 1

\* if attempt < config['max_retries']
SleepsAfter_Always(cfg, k) == TRUE

SleepsAfter(cfg, k) == k < cfg.max_retries

\* delay = min(min_delay * 2 ** attempt, max_delay * 3)
BackoffDelay_Uncapped(cfg, k) == cfg.min_delay * (2 ^ k)

BackoffDelay(cfg, k) == Min(cfg.min_delay * (2 ^ k), cfg.max_delay * 3)

GetEvent(o) == [ev |-> "get", out |-> o, delay |-> 0]
SleepEvent(d) == [ev |-> "sleep", out |-> [exc |-> "none", code |-> 0], delay |-> d]

\* One iteration of the for loop: the GET, the classification of its outcome,
\* the return or the backoff sleep, and the return after the last iteration.
MakeRequestIteration(o) ==
    /\ f_pc = "loop"
    /\ InRange(config, attempt)
    /\ LET c == Classify(o)
           more == InRange(config, attempt + 1)
           sleep == IF SleepsAfter(config, attempt)
                    THEN <<SleepEvent(BackoffDelay(config, attempt))>>
                    ELSE <<>>
       IN  IF c = "retry"
           THEN /\ trace' = Append(trace, GetEvent(o)) \o sleep
                /\ attempt' = attempt + 1
                /\ f_pc' = IF more THEN "loop" ELSE "returned"
                /\ result' = IF more THEN result ELSE "None"
           ELSE /\ trace' = Append(trace, GetEvent(o))
                /\ attempt' = attempt
                /\ f_pc' = "returned"
                /\ result' = IF c = "return_response" THEN "response" ELSE "None"
    /\ UNCHANGED <<cardVars, pool, config, walkVars, enrichVars>>

MakeRequestStep == \E o \in Outcomes : MakeRequestIteration(o)

\* make_request as a function of the outcomes its attempts meet: outs[k + 1] is
\* the outcome of attempt k.
RECURSIVE make_request_from(_, _, _)
make_request_from(cfg, outs, k) ==
    IF ~InRange(cfg, k) \/ k + 1 > Len(outs) THEN "None"
    ELSE LET c == Classify(outs[k + 1])
         IN  IF c = "return_response" THEN "response"
             ELSE IF c = "return_none" THEN "None"
             ELSE make_request_from(cfg, outs, k + 1)

make_request(cfg, outs) == make_request_from(cfg, outs, 0)

FetchConfigs ==
    [max_retries : 0..MaxRetriesBound, min_delay : {MIN_DELAY, 2}, max_delay : {1, MAX_DELAY},
     timeout : {REQUEST_TIMEOUT}, base_url : {[http |-> TRUE, path |-> <<>>]}]

WalkIdle ==
    /\ pc = "idle"
    /\ max_pages = NoneValue
    /\ get_detailed = FALSE
    /\ site = <<>>
    /\ current_url = NoUrl
    /\ page_num = 1
    /\ all_books = <<>>
    /\ detail_urls = <<>>
    /\ books_data = <<>>
    /\ fetchLog = <<>>

EnrichIdle ==
    /\ book_dict = <<>>
    /\ futures = <<>>

CardIdle ==
    /\ input_card = <<>>
    /\ parsed = [done |-> FALSE, value |-> <<>>]

PoolIdle == pool = [queued |-> 0, running |-> 0, finished |-> 0]

InitFetch ==
    /\ config \in FetchConfigs
    /\ f_pc = "loop"
    /\ attempt = 0
    /\ trace = <<>>
    /\ result = "pending"
    /\ WalkIdle
    /\ EnrichIdle
    /\ CardIdle
    /\ PoolIdle

NextFetch == MakeRequestStep

SpecFetch == InitFetch /\ [][NextFetch]_vars

(***************************************************************************)
(* URLs.  An item URL is [http, path]: http says whether the string starts *)
(* with a scheme (the one host is then implied), path is its list of       *)
(* segments.  A catalog page URL is [http, page].                          *)
(***************************************************************************)

DropLast(s) == IF s = <<>> THEN <<>> ELSE SubSeq(s, 1, Len(s) - 1)

InSeq(x, s) == \E i \in 1..Len(s) : s[i] = x

\* s.startswith(prefix + '/'), s and prefix split at every '/'
StartsWith(s, prefix) ==
    Len(s) > Len(prefix) /\ SubSeq(s, 1, Len(prefix)) = prefix

NonEmpty(seg) == seg # ""

\* urllib's removal of the dot segments: '..' drops the segment before it
\* (nothing when there is none), '.' is skipped
RECURSIVE ResolveDots(_, _)
ResolveDots(segments, resolved_path) ==
    IF segments = <<>> THEN resolved_path
    ELSE LET seg == Head(segments)
         IN  ResolveDots(Tail(segments),
                         IF seg = ".." THEN DropLast(resolved_path)
                         ELSE IF seg = "." THEN resolved_path
                         ELSE Append(resolved_path, seg))

\* urljoin(base, path) for a relative, non-empty path: the base's last segment
\* is dropped, empty segments go except the last one, dot segments are resolved
urljoin(base, path) ==
    LET joined == DropLast(base.path) \o path
        segments == SelectSeq(DropLast(joined), NonEmpty) \o <<joined[Len(joined)]>>
        resolved_path == ResolveDots(segments, <<>>)
    IN  [http |-> base.http,
         path |-> IF segments[Len(segments)] \in {".", ".."}
                  THEN Append(resolved_path, "")
                  ELSE resolved_path]

\* the href rewriting of parse_book_card; href[9:] and href[6:] drop three
\* and two leading '../'
NormalizeHref_PrefixOnly(href) == <<"catalogue">> \o href

NormalizeHref(href) ==
    IF StartsWith(href, <<"..", "..", "..">>)
    THEN <<"catalogue">> \o SubSeq(href, 4, Len(href))
    ELSE IF StartsWith(href, <<"..", "..">>)
    THEN <<"catalogue">> \o SubSeq(href, 3, Len(href))
    ELSE IF ~StartsWith(href, <<"catalogue">>)
    THEN <<"catalogue">> \o href
    ELSE href

(***************************************************************************)
(* Texts and the regular expressions.  A text is a list of characters; a   *)
(* word the parsers look for as a whole ("available", "In stock") is one   *)
(* element of the list.  A character class is named by its pattern.       *)
(***************************************************************************)
Digits == {"0", "1", "2", "3", "4", "5", "6", "7", "8", "9"}

IsDigit(c) == c \in Digits
IsDot(c) == c = "."
IsSpace(c) == c = " "

\* the character classes of the patterns: \d, [\d.] and \s
InClass(c, class) ==
    CASE class = "\\d" -> IsDigit(c)
      [] class = "[\\d.]" -> IsDigit(c) \/ IsDot(c)
      [] class = "\\s" -> IsSpace(c)
      [] class = "[.]" -> IsDot(c)

DigitValue(c) ==
    CASE c = "0" -> 0 [] c = "1" -> 1 [] c = "2" -> 2 [] c = "3" -> 3 [] c = "4" -> 4
      [] c = "5" -> 5 [] c = "6" -> 6 [] c = "7" -> 7 [] c = "8" -> 8 [] c = "9" -> 9

\* int(digits)
RECURSIVE IntOf(_)
IntOf(digits) ==
    IF digits = <<>> THEN 0
    ELSE 10 * IntOf(DropLast(digits)) + DigitValue(digits[Len(digits)])

\* str.lower() of one element of a text
Lower(c) ==
    CASE c = "Available" -> "available"
      [] c = "In stock" -> "in stock"
      [] c = "Out of stock" -> "out of stock"
      [] OTHER -> c

\* whether the lowered element contains the word as a substring
HasWord(c, word) ==
    \/ Lower(c) = word
    \/ word = "available" /\ Lower(c) = "unavailable"

\* word in text.lower()
TextHasWord(text, word) == \E i \in 1..Len(text) : HasWord(text[i], word)

\* str.strip()
RECURSIVE Strip(_)
Strip(text) ==
    IF text = <<>> THEN <<>>
    ELSE IF IsSpace(Head(text)) THEN Strip(Tail(text))
    ELSE IF IsSpace(text[Len(text)]) THEN Strip(DropLast(text))
    ELSE text

\* the end of the longest run of characters of one class that starts at i
RECURSIVE RunEnd(_, _, _)
RunEnd(text, i, class) ==
    IF i < Len(text) /\ InClass(text[i + 1], class) THEN RunEnd(text, i + 1, class)
    ELSE i

\* the first position from i on that holds a character of the class, or 0
RECURSIVE FirstOf(_, _, _)
FirstOf(text, i, class) ==
    IF i > Len(text) THEN 0
    ELSE IF InClass(text[i], class) THEN i
    ELSE FirstOf(text, i + 1, class)

\* re.search of a one-class pattern such as [\d.]+ : the leftmost longest run,
\* as a list holding the match, or the empty list
SearchRun(text, class) ==
    LET i == FirstOf(text, 1, class)
    IN  IF i = 0 THEN <<>> ELSE <<SubSeq(text, i, RunEnd(text, i, class))>>

\* \((\d+)\s+available\) with re.IGNORECASE, matched at position i
AvailableAt(text, i) ==
    /\ text[i] = "("
    /\ i + 1 <= Len(text) /\ IsDigit(text[i + 1])
    /\ LET j == RunEnd(text, i + 1, "\\d")
       IN  /\ j + 1 <= Len(text) /\ IsSpace(text[j + 1])
           /\ LET k == RunEnd(text, j + 1, "\\s")
              IN  /\ k + 2 <= Len(text)
                  /\ Lower(text[k + 1]) = "available"
                  /\ text[k + 2] = ")"

\* the first position from i on where the pattern matches, or 0
RECURSIVE FirstAvailable(_, _)
FirstAvailable(text, i) ==
    IF i > Len(text) THEN 0
    ELSE IF AvailableAt(text, i) THEN i
    ELSE FirstAvailable(text, i + 1)

\* re.search(r'\((\d+)\s+available\)', text, re.IGNORECASE): group(1) of the
\* leftmost match, as a list holding it, or the empty list
SearchAvailable(text) ==
    LET i == FirstAvailable(text, 1)
    IN  IF i = 0 THEN <<>> ELSE <<SubSeq(text, i + 1, RunEnd(text, i + 1, "\\d"))>>

(***************************************************************************)
(* The fields of a record.  An element of the markup is [classes, text];   *)
(* what find() returns is a list of at most one element.  A float is       *)
(* [units, frac]: its whole part and the digits after the point, without   *)
(* the trailing zeros.                                                     *)
(***************************************************************************)
RATING_MAP ==
    [cls \in {"One", "Two", "Three", "Four", "Five", "Zero"} |->
        CASE cls = "One" -> 1 [] cls = "Two" -> 2 [] cls = "Three" -> 3
          [] cls = "Four" -> 4 [] cls = "Five" -> 5 [] cls = "Zero" -> 0]
DEFAULT_RATING == 0

ZeroFloat == [units |-> 0, frac |-> <<>>]

\* find('p', class_=cls) for a single class: the first p that carries it
Find(ps, cls) ==
    IF \E i \in 1..Len(ps) : InSeq(cls, ps[i].classes)
    THEN <<ps[CHOOSE i \in 1..Len(ps) :
                 InSeq(cls, ps[i].classes) /\ \A k \in 1..(i - 1) : ~InSeq(cls, ps[k].classes)]>>
    ELSE <<>>

\* find('p', class_='instock availability'): the first p whose class
\* attribute is exactly that string
FindExact(ps, classes) ==
    IF \E i \in 1..Len(ps) : ps[i].classes = classes
    THEN <<ps[CHOOSE i \in 1..Len(ps) :
                 ps[i].classes = classes /\ \A k \in 1..(i - 1) : ps[k].classes # classes]>>
    ELSE <<>>

\* elem.text.strip() if elem else ''
TextOf(elem) == IF elem # <<>> THEN Strip(elem[1].text) ELSE <<>>

\* float(s) raises ValueError unless s has a digit and at most one point
FloatParses(s) ==
    /\ \E i \in 1..Len(s) : IsDigit(s[i])
    /\ Cardinality({i \in 1..Len(s) : IsDot(s[i])}) <= 1

RECURSIVE StripZeros(_)
StripZeros(digits) ==
    IF digits # <<>> /\ digits[Len(digits)] = "0" THEN StripZeros(DropLast(digits))
    ELSE digits

FloatOf(s) ==
    LET p == FirstOf(s, 1, "[.]")
    IN  IF p = 0 THEN [units |-> IntOf(s), frac |-> <<>>]
        ELSE [units |-> IntOf(SubSeq(s, 1, p - 1)),
              frac |-> StripZeros(SubSeq(s, p + 1, Len(s)))]

\* lines 142-148: the price, or the ValueError of float()
ParsePrice(price_elem) ==
    LET price_match == SearchRun(TextOf(price_elem), "[\\d.]")
    IN  IF price_match = <<>> THEN [raised |-> FALSE, value |-> ZeroFloat]
        ELSE IF FloatParses(price_match[1])
        THEN [raised |-> FALSE, value |-> FloatOf(price_match[1])]
        ELSE [raised |-> TRUE, value |-> ZeroFloat]

\* lines 150-161: the for/else over the class tokens
ParseRating_LastToken(rating_elem) ==
    LET rating_classes == IF rating_elem # <<>> THEN rating_elem[1].classes ELSE <<>>
        hits == {i \in 1..Len(rating_classes) : rating_classes[i] \in DOMAIN RATING_MAP}
    IN  IF hits = {} THEN DEFAULT_RATING
        ELSE RATING_MAP[rating_classes[CHOOSE i \in hits : \A k \in hits : k <= i]]

ParseRating(rating_elem) ==
    LET rating_classes == IF rating_elem # <<>> THEN rating_elem[1].classes ELSE <<>>
        hits == {i \in 1..Len(rating_classes) : rating_classes[i] \in DOMAIN RATING_MAP}
    IN  IF hits = {} THEN DEFAULT_RATING
        ELSE RATING_MAP[rating_classes[CHOOSE i \in hits : \A k \in hits : i <= k]]

\* lines 163-169: the availability element
FindStock(ps) ==
    LET stock_elem == FindExact(ps, <<"instock", "availability">>)
    IN  IF stock_elem # <<>> THEN stock_elem ELSE Find(ps, "availability")

\* lines 171-180: the stock count
ParseStock_DigitsOnly(stock_elem) ==
    LET stock_match == SearchRun(TextOf(stock_elem), "\\d")
    IN  IF stock_match = <<>> THEN 0 ELSE IntOf(stock_match[1])

ParseStock(stock_elem) ==
    LET stock_text == TextOf(stock_elem)
        available_match == SearchAvailable(stock_text)
        stock_match == IF available_match # <<>> THEN available_match
                       ELSE SearchRun(stock_text, "\\d")
    IN  IF stock_match = <<>> THEN 0 ELSE IntOf(stock_match[1])

\* lines 182-188
InStock_ClassOnly(stock_elem) ==
    stock_elem # <<>> /\ InSeq("instock", stock_elem[1].classes)

InStock(stock_elem) ==
    LET stock_text == TextOf(stock_elem)
    IN  /\ stock_elem # <<>>
        /\ \/ InSeq("instock", stock_elem[1].classes)
           \/ TextHasWord(stock_text, "available")
           \/ TextHasWord(stock_text, "in stock")

(***************************************************************************)
(* parse_book_card and scrape_page.  A card is [heading, href, ps]:        *)
(* whether its h3/a exists, the href's segments, and its p elements.  A    *)
(* parse that fails is the empty list, a parse that succeeds the           *)
(* one-element list of its record.                                         *)
(***************************************************************************)
PriceP(text) == [classes |-> <<"price_color">>, text |-> text]
RatingP(classes) == [classes |-> classes, text |-> <<>>]
StockP(classes, text) == [classes |-> classes, text |-> text]

\* the p elements of a card of the site: £51.77, three stars, 19 in stock
SitePs ==
    <<PriceP(<<"£", "5", "1", ".", "7", "7">>),
      RatingP(<<"star-rating", "Three">>),
      StockP(<<"instock", "availability">>,
             <<"In stock", " ", "(", "1", "9", " ", "available", ")">>)>>

CardA == [heading |-> TRUE, href |-> <<"a">>, ps |-> SitePs]
CardB == [heading |-> TRUE, href |-> <<"..", "..", "..", "b">>, ps |-> SitePs]
BadCard == [heading |-> FALSE, href |-> <<"a">>, ps |-> SitePs]

parse_book_card(card, base_url) ==
    LET price == ParsePrice(Find(card.ps, "price_color"))
        stock_elem == FindStock(card.ps)
    IN  IF ~card.heading \/ price.raised THEN <<>>
        ELSE <<[title    |-> "card title",
                price    |-> price.value,
                rating   |-> ParseRating(Find(card.ps, "star-rating")),
                stock    |-> ParseStock(stock_elem),
                in_stock |-> InStock(stock_elem),
                url      |-> urljoin(base_url, NormalizeHref(card.href))]>>

\* the for loop of scrape_page over the cards
ParseCards_Reversed(cards, base_url) ==
    LET RECURSIVE Rev(_)
        Rev(cs) == IF cs = <<>> THEN <<>>
                   ELSE Rev(Tail(cs)) \o parse_book_card(Head(cs), base_url)
    IN  Rev(cards)

ParseCards_StopAtBadCard(cards, base_url) ==
    LET RECURSIVE Upto(_)
        Upto(cs) == IF cs = <<>> \/ parse_book_card(Head(cs), base_url) = <<>> THEN <<>>
                    ELSE parse_book_card(Head(cs), base_url) \o Upto(Tail(cs))
    IN  Upto(cards)

RECURSIVE ParseCards(_, _)
ParseCards(cards, base_url) ==
    IF cards = <<>> THEN <<>>
    ELSE parse_book_card(Head(cards), base_url) \o ParseCards(Tail(cards), base_url)

\* The page bodies a GET can bring: a list of cards (none, one, two, one of
\* them without its heading) and a next link ([page |-> 0]: none) whose href
\* starts with catalogue/ or not.
CardLists == {<<>>, <<CardA>>, <<CardA, CardB>>, <<BadCard, CardB>>}
NextForms == {"catalogue/", "relative"}

\* next_url of scrape_page
NextUrl_OnlyCatalogueForm(cfg, url, next) ==
    IF next.page = 0 \/ next.form # "catalogue/" THEN NoUrl
    ELSE [http |-> cfg.base_url.http, page |-> next.page]

NextUrl(cfg, url, next) ==
    IF next.page = 0 THEN NoUrl
    ELSE IF next.form = "catalogue/"
    THEN [http |-> cfg.base_url.http, page |-> next.page]
    ELSE [http |-> url.http, page |-> next.page]

\* scrape_page(url, config, session), given what make_request returned and the
\* body of the response
ScrapePage_KeepNextOnFailure(cfg, url, response, body) ==
    [books |-> IF response = "None" THEN <<>> ELSE ParseCards(body.cards, cfg.base_url),
     next_url |-> NextUrl(cfg, url, body.next)]

scrape_page(cfg, url, response, body) ==
    IF response = "None"
    THEN [books |-> <<>>, next_url |-> NoUrl]
    ELSE [books |-> ParseCards(body.cards, cfg.base_url),
          next_url |-> NextUrl(cfg, url, body.next)]

\* The outcomes the attempts of one make_request call can meet: requests
\* raises MissingSchema, an Exception, for a URL without a scheme.
AttemptOutcomes(cfg, url) ==
    IF url.http
    THEN [1..(cfg.max_retries + 1) -> Outcomes]
    ELSE [1..(cfg.max_retries + 1) -> {[exc |-> "Exception", code |-> 0]}]

Responses(cfg, url) == {make_request(cfg, outs) : outs \in AttemptOutcomes(cfg, url)}

\* session.get(url, timeout=config['timeout']): a GET that ends in Timeout has
\* lasted the timeout at least.  The seconds a make_request call has lasted at
\* least are those of its timed-out GETs and of its sleeps.
RECURSIVE SecondsFrom(_, _, _)
SecondsFrom(cfg, outs, k) ==
    IF ~InRange(cfg, k) \/ k + 1 > Len(outs) THEN 0
    ELSE LET get == IF outs[k + 1].exc = "Timeout" THEN cfg.timeout ELSE 0
         IN  IF Classify(outs[k + 1]) = "retry"
             THEN get + (IF SleepsAfter(cfg, k) THEN BackoffDelay(cfg, k) ELSE 0)
                      + SecondsFrom(cfg, outs, k + 1)
             ELSE get

\* future.result(timeout=10)
RESULT_TIMEOUT == 10

\* What a make_request call can return, and whether it lasted longer than the
\* timeout of future.result.
TimedResponses(cfg, url) ==
    {[response |-> make_request(cfg, outs),
      slow |-> SecondsFrom(cfg, outs, 0) > RESULT_TIMEOUT] : outs \in AttemptOutcomes(cfg, url)}

(***************************************************************************)
(* scrape_all_pages: the page walk (both while loops).                     *)
(***************************************************************************)
Pages == 1..NPages
MaxFetch == NPages + 1   \* the model follows a walk for at most MaxFetch pages

Urls(books) == [i \in 1..Len(books) |-> books[i].url]

\* if max_pages and page_num > max_pages: break
Truthy(n) == n # NoneValue /\ n # 0

BreakAtCap(mp, pn) == Truthy(mp) /\ pn > mp

\* One iteration of the while loop that reaches scrape_page.
WalkPage(response, body) ==
    LET r == scrape_page(config, current_url, response, body)
    IN  /\ fetchLog' = Append(fetchLog, [page |-> current_url.page,
                                         ok |-> response # "None",
                                         cards |-> IF response = "None" THEN <<>>
                                                   ELSE body.cards,
                                         books |-> r.books])
        /\ IF get_detailed
           THEN /\ all_books' = all_books \o r.books
                /\ detail_urls' = detail_urls \o Urls(r.books)
                /\ UNCHANGED books_data
           ELSE /\ books_data' = books_data \o r.books
                /\ UNCHANGED <<all_books, detail_urls>>
        /\ IF r.next_url # NoUrl
           THEN current_url' = r.next_url /\ page_num' = page_num + 1
           ELSE current_url' = NoUrl /\ UNCHANGED page_num

WalkIteration ==
    /\ pc = "walk"
    /\ current_url # NoUrl
    /\ ~BreakAtCap(max_pages, page_num)
    /\ Len(fetchLog) < MaxFetch
    /\ \E response \in Responses(config, current_url) :
       \E cards \in CardLists, form \in NextForms :
          WalkPage(response, [cards |-> cards,
                              next |-> [page |-> site[current_url.page], form |-> form]])
    /\ UNCHANGED <<cardVars, pool, config, fetchVars, pc, max_pages, get_detailed, site, enrichVars>>

\* The loop ends: its condition fails or the break is taken.  The basic mode
\* returns books_data; the detailed mode goes on to the enrichment pass.
WalkExit_AnyTime ==
    /\ pc = "walk"
    /\ pc' = IF get_detailed THEN "submit" ELSE "done"
    /\ UNCHANGED <<cardVars, pool, config, fetchVars, max_pages, get_detailed, site, current_url,
                   page_num, all_books, detail_urls, books_data, fetchLog, enrichVars>>

WalkExit ==
    /\ pc = "walk"
    /\ current_url = NoUrl \/ BreakAtCap(max_pages, page_num)
    /\ pc' = IF get_detailed THEN "submit" ELSE "done"
    /\ UNCHANGED <<cardVars, pool, config, fetchVars, max_pages, get_detailed, site, current_url,
                   page_num, all_books, detail_urls, books_data, fetchLog, enrichVars>>

\* The configs of a crawl: the program's delays, one retry per request, a
\* timeout of one second per GET (no request outlasts RESULT_TIMEOUT), and
\* base_url with or without its scheme.
CrawlConfigs ==
    [max_retries : {1}, min_delay : {MIN_DELAY}, max_delay : {MAX_DELAY},
     timeout : {1}, base_url : BaseUrls]

\* The program's config: its timeout of REQUEST_TIMEOUT seconds per GET, under
\* which a request that retries after a timed-out GET outlasts RESULT_TIMEOUT.
SlowConfigs ==
    [max_retries : {1}, min_delay : {MIN_DELAY}, max_delay : {MAX_DELAY},
     timeout : {REQUEST_TIMEOUT}, base_url : {[http |-> TRUE, path |-> <<>>]}]

\* TimedResponses for each config of a crawl, and a URL with or without scheme
TimedResponseTable ==
    [cfg \in CrawlConfigs \cup SlowConfigs |->
        [http \in BOOLEAN |-> TimedResponses(cfg, [http |-> http])]]

FetchIdle ==
    /\ f_pc = "idle"
    /\ attempt = 0
    /\ trace = <<>>
    /\ result = "pending"

InitWalk ==
    /\ config \in CrawlConfigs
    /\ FetchIdle
    /\ pc = "walk"
    /\ max_pages \in {NoneValue} \cup (0..NPages)
    /\ get_detailed \in BOOLEAN
    /\ site \in [Pages -> 0..NPages]
    /\ current_url = [http |-> config.base_url.http, page |-> 1]
    /\ page_num = 1
    /\ all_books = <<>>
    /\ detail_urls = <<>>
    /\ books_data = <<>>
    /\ fetchLog = <<>>
    /\ EnrichIdle
    /\ CardIdle
    /\ PoolIdle

NextWalk == WalkIteration \/ WalkExit

SpecWalk == InitWalk /\ [][NextWalk]_vars

(***************************************************************************)
(* parse_book_card on its own: one card, drawn from the cards below, is    *)
(* parsed once.  A text, a class list or an href of these cards is made    *)
(* of at most MaxChunks pieces.                                            *)
(***************************************************************************)
RECURSIVE Flatten(_)
Flatten(chunks) ==
    IF chunks = <<>> THEN <<>> ELSE Head(chunks) \o Flatten(Tail(chunks))

Texts(Chunks) == {Flatten(cs) : cs \in UNION {[1..n -> Chunks] : n \in 0..MaxChunks}}

HrefChunks == {<<"..">>, <<"..", "..">>, <<"catalogue">>, <<"a">>, <<"">>, <<"catalogue", "a">>}
PriceChunks == {<<"£">>, <<"5", "1">>, <<".">>, <<"7", "0">>, <<" ">>}
RatingChunks == {<<"star-rating">>, <<"Three">>, <<"Five">>, <<"Zero">>, <<"three">>}
StockChunks ==
    {<<"In stock">>, <<"Out of stock">>, <<"unavailable">>, <<" ">>, <<"7">>,
     <<"(", "1", "9", " ", "Available", ")">>, <<"(", "3", "available", ")">>}
StockClasses ==
    {<<"instock", "availability">>, <<"availability">>, <<"availability", "instock">>}

CardOf(href, ps) == [heading |-> TRUE, href |-> href, ps |-> ps]

HrefCards == {CardOf(href, SitePs) : href \in Texts(HrefChunks) \ {<<>>}}
PriceCards == {CardOf(<<"a">>, <<PriceP(text)>>) : text \in Texts(PriceChunks)}
RatingCards == {CardOf(<<"a">>, <<RatingP(classes)>>) : classes \in Texts(RatingChunks)}
StockCards ==
    {CardOf(<<"a">>, <<StockP(classes, text)>>) :
        classes \in StockClasses, text \in Texts(StockChunks)}
    \cup {CardOf(<<"a">>, <<StockP(<<"availability">>, <<"7">>),
                            StockP(<<"instock", "availability">>, <<"Out of stock">>)>>)}

InputCards ==
    HrefCards \cup PriceCards \cup RatingCards \cup StockCards
    \cup {CardOf(<<"a">>, <<>>), BadCard}

ParseCard ==
    /\ ~parsed.done
    /\ parsed' = [done |-> TRUE, value |-> parse_book_card(input_card, config.base_url)]
    /\ UNCHANGED <<input_card, pool, config, fetchVars, walkVars, enrichVars>>

InitCard ==
    /\ config \in CrawlConfigs
    /\ FetchIdle
    /\ WalkIdle
    /\ EnrichIdle
    /\ PoolIdle
    /\ input_card \in InputCards
    /\ parsed = [done |-> FALSE, value |-> <<>>]

NextCard == ParseCard

SpecCard == InitCard /\ [][NextCard]_vars

(***************************************************************************)
(* scrape_book_detail and parse_book_detail_page.  A detail page is        *)
(* [title, ps, tax, category]: its h1, its p elements, and "absent" where  *)
(* the page lacks the table row or the breadcrumb; of the optional fields  *)
(* the model keeps tax and category (upc, product_type, price_excl_tax,    *)
(* price_incl_tax and image_url are set the same way).                     *)
(***************************************************************************)
EmptyDict == [k \in {} |-> "absent"]

\* the p elements of a detail page: £9.90, five stars, 3 in stock
PagePs ==
    <<PriceP(<<"£", "9", ".", "9", "0">>),
      RatingP(<<"star-rating", "Five">>),
      StockP(<<"instock", "availability">>,
             <<"In stock", " ", "(", "3", " ", "available", ")">>)>>

\* the detail pages a task can meet: one without a category, one with
DetailPages ==
    {[title |-> "page title", ps |-> PagePs, tax |-> "0.50", category |-> "absent"],
     [title |-> "page title", ps |-> PagePs, tax |-> "0.00", category |-> "Poetry"]}

\* What a detail task meets: the outcomes of its GET attempts, and then a page
\* that parses, a page whose markup makes the parse raise inside the try
\* ("malformed"), or an exception outside every handler ("raise").
TaskEnds == {"parsed", "malformed", "raise"}

\* lines 385-390: a URL that does not start with http is prefixed
DetailUrl_AlwaysPrefixed(cfg, url) ==
    [http |-> cfg.base_url.http,
     path |-> cfg.base_url.path \o <<"catalogue">> \o url.path]

DetailUrl(cfg, url) ==
    IF url.http THEN url
    ELSE IF StartsWith(url.path, <<"catalogue">>)
    THEN [http |-> cfg.base_url.http, path |-> cfg.base_url.path \o url.path]
    ELSE [http |-> cfg.base_url.http,
          path |-> cfg.base_url.path \o <<"catalogue">> \o url.path]

\* parse_book_detail_page(url, config, session): the empty list for None, or
\* the one-element list of the details dict
parse_book_detail_page(url, response, end, page) ==
    LET price == ParsePrice(Find(page.ps, "price_color"))
        availability_elem == FindStock(page.ps)
    IN  IF response = "None" \/ end = "malformed" \/ price.raised THEN <<>>
        ELSE <<[k \in {"title", "price", "stock", "in_stock", "rating", "url"}
                     \cup (IF page.tax # "absent" THEN {"tax"} ELSE {})
                     \cup (IF page.category # "absent" THEN {"category"} ELSE {})
                |-> CASE k = "url" -> url
                      [] k = "price" -> price.value
                      [] k = "stock" -> ParseStock(availability_elem)
                      [] k = "in_stock" -> InStock(availability_elem)
                      [] k = "rating" -> ParseRating(Find(page.ps, "star-rating"))
                      [] OTHER -> page[k]]>>

\* scrape_book_detail(url, config): what the future holds when the task is over
scrape_book_detail(cfg, url, response, end, page) ==
    IF end = "raise" THEN [kind |-> "raise", value |-> EmptyDict]
    ELSE LET book_details == parse_book_detail_page(DetailUrl(cfg, url), response, end, page)
         IN  [kind |-> "value",
              value |-> IF book_details = <<>> THEN EmptyDict ELSE book_details[1]]

(***************************************************************************)
(* scrape_all_pages: the enrichment pass.  book_dict is [keys, val]: the   *)
(* keys in insertion order and the record of each key.                     *)
(***************************************************************************)
\* book_dict[key] = value: a new key goes last, a known key keeps its place
DictSet_MoveToEnd(d, key, value) ==
    [keys |-> Append(SelectSeq(d.keys, LAMBDA k : k # key), key),
     val  |-> [u \in DOMAIN d.val \cup {key} |-> IF u = key THEN value ELSE d.val[u]]]

DictSet(d, key, value) ==
    [keys |-> IF InSeq(key, d.keys) THEN d.keys ELSE Append(d.keys, key),
     val  |-> [u \in DOMAIN d.val \cup {key} |-> IF u = key THEN value ELSE d.val[u]]]

\* {book['url']: book for book in all_books}
RECURSIVE DictOfBooks(_)
DictOfBooks(books) ==
    IF books = <<>> THEN [keys |-> <<>>, val |-> EmptyDict]
    ELSE LET n == Len(books)
         IN  DictSet(DictOfBooks(SubSeq(books, 1, n - 1)), books[n].url, books[n])

\* list(book_dict.values())
DictValues(d) == [i \in 1..Len(d.keys) |-> d.val[d.keys[i]]]

\* base.update(detail)
DictUpdate_KeepExisting(base, detail) ==
    [k \in DOMAIN base \cup DOMAIN detail |->
        IF k \in DOMAIN base THEN base[k] ELSE detail[k]]

DictUpdate(base, detail) ==
    [k \in DOMAIN base \cup DOMAIN detail |->
        IF k \in DOMAIN detail THEN detail[k] ELSE base[k]]

\* The body of the as_completed loop for one future: future.result() raises
\* what the task raised, which the except clause absorbs.
MergeResult_Assign(d, url, res) ==
    IF res.kind = "value" /\ InSeq(url, d.keys)
    THEN DictSet(d, url, res.value)
    ELSE d

MergeResult(d, url, res) ==
    IF res.kind = "value" /\ res.value # EmptyDict /\ InSeq(url, d.keys)
    THEN DictSet(d, url, DictUpdate(d.val[url], res.value))
    ELSE d

NoResult == [kind |-> "none", value |-> EmptyDict]

\* book_dict is built and every detail URL is submitted to the executor.
Submit ==
    /\ pc = "submit"
    /\ book_dict' = DictOfBooks(all_books)
    /\ futures' = [i \in 1..Len(detail_urls) |->
                     [url |-> detail_urls[i], state |-> "queued", slow |-> FALSE,
                      result |-> NoResult, collected |-> FALSE]]
    /\ pc' = "collect"
    /\ UNCHANGED <<cardVars, pool, config, fetchVars, max_pages, get_detailed, site, current_url,
                   page_num, all_books, detail_urls, books_data, fetchLog>>

Running == {i \in 1..Len(futures) : futures[i].state = "running"}

\* ThreadPoolExecutor(max_workers=MAX_WORKERS_VALUE): a task is taken off the
\* queue only by a worker, and there are at most max_workers workers
HasFreeWorker_Always(running) == TRUE

HasFreeWorker(running) == running < MAX_WORKERS_VALUE

\* A free worker takes the oldest queued task.
StartTask(i) ==
    /\ pc = "collect"
    /\ futures[i].state = "queued"
    /\ \A j \in 1..(i - 1) : futures[j].state # "queued"
    /\ HasFreeWorker(Cardinality(Running))
    /\ futures' = [futures EXCEPT ![i].state = "running"]
    /\ UNCHANGED <<cardVars, pool, config, fetchVars, walkVars, book_dict>>

\* What the task of a url can end in: what scrape_book_detail returns or
\* raises, and whether its request outlasted RESULT_TIMEOUT.
TaskResults(cfg, url) ==
    {[slow |-> r.slow,
      result |-> scrape_book_detail(cfg, url, r.response, end, page)] :
        r \in TimedResponseTable[cfg][DetailUrl(cfg, url).http],
        end \in TaskEnds, page \in DetailPages}

\* The base records a walk can hand over: those parse_book_card builds, and
\* none at all when base_url has no scheme (WalkRecordsAreBaseRecords).
BaseRecords(base_url) ==
    IF base_url.http
    THEN {parse_book_card(c, base_url)[1] : c \in {CardA, CardB}}
    ELSE {}

\* TaskResults for each config of a crawl and each url of a base record
TaskResultTable ==
    [cfg \in CrawlConfigs \cup SlowConfigs |->
        [url \in {b.url : b \in BaseRecords(cfg.base_url)} |-> TaskResults(cfg, url)]]

\* A worker ends its task: scrape_book_detail returns or raises.
FinishTask_WritesIndex(i) ==
    /\ pc = "collect"
    /\ futures[i].state = "running"
    /\ \E r \in TaskResultTable[config][futures[i].url] :
          /\ futures' = [futures EXCEPT ![i].state = "done", ![i].slow = r.slow,
                                        ![i].result = r.result]
          /\ book_dict' = MergeResult(book_dict, futures[i].url, r.result)
    /\ UNCHANGED <<cardVars, pool, config, fetchVars, walkVars>>

FinishTask(i) ==
    /\ pc = "collect"
    /\ futures[i].state = "running"
    /\ \E r \in TaskResultTable[config][futures[i].url] :
          futures' = [futures EXCEPT ![i].state = "done", ![i].slow = r.slow,
                                    ![i].result = r.result]
    /\ UNCHANGED <<cardVars, pool, config, fetchVars, walkVars, book_dict>>

\* as_completed yields a finished future and the loop body handles it.
Collect(i) ==
    /\ pc = "collect"
    /\ futures[i].state = "done"
    /\ ~futures[i].collected
    /\ book_dict' = MergeResult(book_dict, futures[i].url, futures[i].result)
    /\ futures' = [futures EXCEPT ![i].collected = TRUE]
    /\ UNCHANGED <<cardVars, pool, config, fetchVars, walkVars>>

\* Every future has been yielded: the executor is shut down and the values of
\* book_dict are returned.
Return ==
    /\ pc = "collect"
    /\ \A i \in 1..Len(futures) : futures[i].collected
    /\ books_data' = DictValues(book_dict)
    /\ pc' = "done"
    /\ UNCHANGED <<cardVars, pool, config, fetchVars, max_pages, get_detailed, site, current_url,
                   page_num, all_books, detail_urls, fetchLog, enrichVars>>

BookLists(base_url) == UNION {[1..n -> BaseRecords(base_url)] : n \in 0..MaxBooks}

InitEnrich ==
    /\ config \in CrawlConfigs
    /\ FetchIdle
    /\ pc = "submit"
    /\ max_pages = NoneValue
    /\ get_detailed = TRUE
    /\ site = <<>>
    /\ current_url = NoUrl
    /\ page_num = 1
    /\ all_books \in BookLists(config.base_url)
    /\ detail_urls = Urls(all_books)
    /\ books_data = <<>>
    /\ fetchLog = <<>>
    /\ EnrichIdle
    /\ CardIdle
    /\ PoolIdle

StartSomeTask == \E i \in 1..Len(futures) : StartTask(i)
FinishSomeTask == \E i \in 1..Len(futures) : FinishTask(i)
CollectSomeFuture == \E i \in 1..Len(futures) : Collect(i)

NextEnrich == Submit \/ StartSomeTask \/ FinishSomeTask \/ CollectSomeFuture \/ Return

SpecEnrich == InitEnrich /\ [][NextEnrich]_vars

(***************************************************************************)
(* The enrichment pass under the program's timeout of REQUEST_TIMEOUT      *)
(* seconds per GET, where a task that retries after a timed-out GET        *)
(* outlasts RESULT_TIMEOUT; for at most MaxSlowBooks base records.         *)
(***************************************************************************)
InitSlow ==
    /\ config \in SlowConfigs
    /\ FetchIdle
    /\ pc = "submit"
    /\ max_pages = NoneValue
    /\ get_detailed = TRUE
    /\ site = <<>>
    /\ current_url = NoUrl
    /\ page_num = 1
    /\ all_books \in UNION {[1..n -> BaseRecords(config.base_url)] : n \in 0..MaxSlowBooks}
    /\ detail_urls = Urls(all_books)
    /\ books_data = <<>>
    /\ fetchLog = <<>>
    /\ EnrichIdle
    /\ CardIdle
    /\ PoolIdle

SpecSlow == InitSlow /\ [][NextEnrich]_vars

(***************************************************************************)
(* The executor on its own, lines 551-558: the tasks are counted, not      *)
(* told apart, so that more tasks than workers can be followed.  A worker  *)
(* thread that can take or end a task does so in the end: every GET has a  *)
(* timeout and make_request a bounded number of attempts.                  *)
(***************************************************************************)
PoolStart ==
    /\ pool.queued > 0
    /\ HasFreeWorker(pool.running)
    /\ pool' = [pool EXCEPT !.queued = @ - 1, !.running = @ + 1]
    /\ UNCHANGED <<cardVars, config, fetchVars, walkVars, enrichVars>>

PoolFinish ==
    /\ pool.running > 0
    /\ pool' = [pool EXCEPT !.running = @ - 1, !.finished = @ + 1]
    /\ UNCHANGED <<cardVars, config, fetchVars, walkVars, enrichVars>>

InitPool ==
    /\ config \in CrawlConfigs
    /\ FetchIdle
    /\ WalkIdle
    /\ EnrichIdle
    /\ CardIdle
    /\ pool \in {[queued |-> n, running |-> 0, finished |-> 0] : n \in 0..MaxTasks}

NextPool == PoolStart \/ PoolFinish

SpecPool == InitPool /\ [][NextPool]_vars /\ WF_vars(PoolStart) /\ WF_vars(PoolFinish)

(***************************************************************************)
(* scrape_all_pages(config, max_pages, get_detailed=True) as a whole: the  *)
(* walk and then the enrichment pass, for a catalog whose pages each link  *)
(* to the next one or to none, and a cap of one or two pages.              *)
(***************************************************************************)
InitCrawl ==
    /\ InitWalk
    /\ get_detailed
    /\ max_pages \in {1, 2}
    /\ \A p \in Pages : site[p] \in {0, p + 1}

NextCrawl == NextWalk \/ NextEnrich

SpecCrawl == InitCrawl /\ [][NextCrawl]_vars

(***************************************************************************)
(* Claims about make_request, checked under SpecFetch.                     *)
(***************************************************************************)
IsGet(e) == e.ev = "get"
IsSleep(e) == e.ev = "sleep"
Gets == SelectSeq(trace, IsGet)
Sleeps == SelectSeq(trace, IsSleep)

\* The retryable failures the claims name: HTTP 5xx, connection error, timeout,
\* any other transport exception.
RetryableFailure(o) ==
    \/ o.exc = "none" /\ o.code \in 500..599
    \/ o.exc \in {"ConnectionError", "Timeout", "HTTPError", "Exception"}

\* The terminal outcomes claim C2 names: HTTP 4xx and the redirect loop.
ClientErrorOrRedirectLoop(o) ==
    \/ o.exc = "none" /\ o.code \in 400..499
    \/ o.exc = "TooManyRedirects"

\* C1: a call whose attempts all end in a retryable failure issues exactly
\* max_retries + 1 GETs and then returns None; no call ever issues more than
\* max_retries + 1 GETs.
C1_ExactlyMaxRetriesPlusOneAttempts ==
    /\ Len(Gets) <= config.max_retries + 1
    /\ (f_pc = "returned" /\ \A i \in 1..Len(Gets) : RetryableFailure(Gets[i].out))
          => (Len(Gets) = config.max_retries + 1 /\ result = "None")

C1_Witness ==
    /\ f_pc = "returned"
    /\ config.max_retries >= 2
    /\ Len(Gets) = config.max_retries + 1
    /\ \A i \in 1..Len(Gets) : RetryableFailure(Gets[i].out)
    /\ result = "None"

\* C2: an attempt that ends in HTTP 4xx or in TooManyRedirects is the last
\* event of the call: no GET and no sleep follows it, and the call has
\* returned None, whatever retry budget remains.
C2_TerminalOutcomeEndsCall ==
    \A i \in 1..Len(trace) :
        (IsGet(trace[i]) /\ ClientErrorOrRedirectLoop(trace[i].out))
            => (i = Len(trace) /\ f_pc = "returned" /\ result = "None")

C2_Witness ==
    /\ Len(trace) >= 3
    /\ IsGet(trace[Len(trace)])
    /\ ClientErrorOrRedirectLoop(trace[Len(trace)].out)
    /\ Len(Gets) < config.max_retries + 1
    /\ f_pc = "returned"

\* C3: the k-th sleep of a call (k counted from 0) follows the retryable
\* failure of attempt k < max_retries and lasts min(min_delay * 2^k,
\* max_delay * 3); so no sleep exceeds 3 * max_delay and the sleeps never
\* get shorter.
C3_BackoffDelay ==
    /\ \A k \in 0..(Len(Sleeps) - 1) :
          /\ k < config.max_retries
          /\ Sleeps[k + 1].delay =
                Min(config.min_delay * (2 ^ k), config.max_delay * 3)
          /\ Sleeps[k + 1].delay <= 3 * config.max_delay
          /\ k > 0 => Sleeps[k].delay <= Sleeps[k + 1].delay
    /\ \A i \in 1..Len(trace) :
          IsSleep(trace[i]) =>
             /\ i > 1
             /\ IsGet(trace[i - 1])
             /\ RetryableFailure(trace[i - 1].out)

C3_Witness ==
    /\ Len(Sleeps) >= 3
    /\ Sleeps[3].delay = 3 * config.max_delay
    /\ Sleeps[3].delay < config.min_delay * 4
    /\ Sleeps[1].delay < Sleeps[2].delay

\* C4: a GET that returns 200 is the last event of the call, and a call that
\* has returned gave a response exactly when one of its at most
\* max_retries + 1 attempts returned 200 after only retryable failures.
C4_FirstSuccessWins ==
    /\ \A i \in 1..Len(trace) :
          (IsGet(trace[i]) /\ trace[i].out.exc = "none" /\ trace[i].out.code = 200)
             => (i = Len(trace) /\ f_pc = "returned" /\ result = "response")
    /\ f_pc = "returned" =>
          (result = "response" <=>
             \E i \in 1..Len(Gets) :
                /\ i <= config.max_retries + 1
                /\ Gets[i].out.exc = "none" /\ Gets[i].out.code = 200
                /\ \A j \in 1..(i - 1) : RetryableFailure(Gets[j].out))
    /\ f_pc = "loop" => result = "pending"

C4_Witness ==
    /\ f_pc = "returned"
    /\ result = "response"
    /\ Len(Gets) = config.max_retries + 1
    /\ Len(Gets) >= 3
    /\ Len(Sleeps) = Len(Gets) - 1

(***************************************************************************)
(* Claims about the page walk, checked under SpecWalk.  The walk has ended *)
(* when pc is "done" (basic mode: books_data is returned) or "submit"      *)
(* (detailed mode: all_books goes to the enrichment pass).                 *)
(***************************************************************************)
WalkEnded == pc \in {"submit", "done"}
WalkRecords == IF get_detailed THEN all_books ELSE books_data

RECURSIVE BooksOfFetches(_, _)
BooksOfFetches(log, n) ==
    IF n = 0 THEN <<>> ELSE BooksOfFetches(log, n - 1) \o log[n].books

AllFetchesOk == \A i \in 1..Len(fetchLog) : fetchLog[i].ok

\* pages 1..n are chained by their next links and page n has none
LinearCatalog(n) ==
    /\ \A p \in 1..(n - 1) : site[p] = p + 1
    /\ site[n] = 0

\* The records of a walk are records parse_book_card builds from base_url, one
\* detail URL each, and a base_url without a scheme yields none: the states
\* InitEnrich starts from.
WalkRecordsAreBaseRecords ==
    /\ \A i \in 1..Len(WalkRecords) : WalkRecords[i] \in BaseRecords(config.base_url)
    /\ get_detailed => detail_urls = Urls(all_books)

\* C7: on a catalog whose pages 1..N are chained by next links, with max_pages
\* unset and every fetch succeeding, the walk fetches page i as its i-th fetch,
\* ends after exactly N fetches and returns the records of those N pages.
C7_LinearCatalogWalkedInOrder ==
    \A n \in Pages :
        (LinearCatalog(n) /\ max_pages = NoneValue /\ AllFetchesOk) =>
            /\ Len(fetchLog) <= n
            /\ \A i \in 1..Len(fetchLog) : fetchLog[i].page = i
            /\ WalkEnded =>
                  /\ Len(fetchLog) = n
                  /\ WalkRecords = BooksOfFetches(fetchLog, n)

C7_Witness ==
    /\ LinearCatalog(NPages)
    /\ max_pages = NoneValue
    /\ AllFetchesOk
    /\ pc = "done"
    /\ Len(fetchLog) = NPages
    /\ \A i \in 1..NPages : fetchLog[i].books # <<>>
    /\ Len(books_data) > NPages

\* C8: when max_pages is an integer M >= 0, at most M catalog pages are
\* fetched and the records come from the first M fetches only (stated for a
\* base_url with its scheme, under which a GET goes out).
C8_AtMostMaxPagesFetched ==
    (max_pages # NoneValue /\ config.base_url.http) =>
        /\ Len(fetchLog) <= max_pages
        /\ Len(WalkRecords) = Len(BooksOfFetches(fetchLog, Min(max_pages, Len(fetchLog))))

\* C9: a failed page fetch is the last fetch of the walk: it adds no record,
\* the loop's condition is false after it, and the walk ends with exactly the
\* records of the fetches before it.
C9_FailedFetchEndsWalk ==
    /\ \A k \in 1..Len(fetchLog) :
          ~fetchLog[k].ok =>
             /\ k = Len(fetchLog)
             /\ fetchLog[k].books = <<>>
             /\ current_url = NoUrl
             /\ WalkRecords = BooksOfFetches(fetchLog, k - 1)
    /\ WalkEnded => WalkRecords = BooksOfFetches(fetchLog, Len(fetchLog))

C9_Witness ==
    /\ pc = "done"
    /\ Len(fetchLog) = 2
    /\ ~fetchLog[2].ok
    /\ site[fetchLog[2].page] # 0
    /\ books_data = fetchLog[1].books
    /\ Len(books_data) = 2

C9_WitnessFirstPage ==
    /\ pc = "done"
    /\ Len(fetchLog) = 1
    /\ ~fetchLog[1].ok
    /\ books_data = <<>>

(***************************************************************************)
(* Claims about the enrichment pass, checked under SpecEnrich.             *)
(***************************************************************************)
UrlSet(books) == {books[i].url : i \in 1..Len(books)}
TasksOf(u) == {i \in 1..Len(futures) : futures[i].url = u}

\* the task returned a non-empty details dict
Succeeded(i) == futures[i].result.kind = "value" /\ DOMAIN futures[i].result.value # {}
\* the task is over without one: a failed fetch or parse ({}), or an exception
Failed(i) == futures[i].state = "done" /\ ~Succeeded(i)

\* the record all_books holds for url u when the pass begins (the last one,
\* when several cards gave the same url)
BaseRecordOf(u) ==
    LET last == CHOOSE i \in 1..Len(all_books) :
                    /\ all_books[i].url = u
                    /\ \A j \in (i + 1)..Len(all_books) : all_books[j].url # u
    IN  all_books[last]

\* C5: the detailed crawl returns exactly one record per distinct url of the
\* base records, and no other url, whatever the detail tasks ended in.
C5_UrlSetPreserved ==
    pc = "done" =>
        /\ UrlSet(books_data) = UrlSet(all_books)
        /\ Len(books_data) = Cardinality(UrlSet(all_books))

C5_Witness ==
    /\ pc = "done"
    /\ Len(all_books) = 3
    /\ Len(books_data) = 2
    /\ \E i, j \in 1..Len(futures) : Succeeded(i) /\ Failed(j)
    /\ \E i \in 1..Len(futures) : futures[i].result.kind = "raise"

\* C6: when the crawl has returned, every detail task was run and handled; a
\* url whose tasks all failed has its base record returned unchanged; a url
\* with a successful task carries the fields of one of its successful
\* results, whatever the tasks of the other urls ended in.
C6_TaskFailureIsolated ==
    pc = "done" =>
        /\ \A i \in 1..Len(futures) : futures[i].state = "done" /\ futures[i].collected
        /\ Len(futures) = Len(all_books)
        /\ \A n \in 1..Len(books_data) :
              LET rec == books_data[n]
                  u == book_dict.keys[n]
              IN  IF \A i \in TasksOf(u) : Failed(i)
                  THEN rec = BaseRecordOf(u)
                  ELSE \E i \in TasksOf(u) :
                          /\ Succeeded(i)
                          /\ \A k \in DOMAIN futures[i].result.value :
                                k \in DOMAIN rec /\ rec[k] = futures[i].result.value[k]

C6_Witness ==
    /\ pc = "done"
    /\ Len(books_data) = 2
    /\ \E m, n \in 1..Len(books_data) :
          /\ books_data[m] = BaseRecordOf(book_dict.keys[m])
          /\ \E i \in TasksOf(book_dict.keys[m]) : futures[i].result.kind = "raise"
          /\ \E i \in TasksOf(book_dict.keys[m]) :
                futures[i].result.kind = "value" /\ ~Succeeded(i)
          /\ "tax" \in DOMAIN books_data[n]
          /\ books_data[n].title = "page title"

\* merged is the right-biased union of base and detail
RightBiasedUnion(base, detail, merged) ==
    /\ DOMAIN merged = DOMAIN base \cup DOMAIN detail
    /\ \A k \in DOMAIN detail : merged[k] = detail[k]
    /\ \A k \in DOMAIN base \ DOMAIN detail : merged[k] = base[k]

\* C10: every step that handles a future with a non-empty result leaves the
\* record of its url as the right-biased union of the record before and the
\* result (a key of the result takes the result's value, any other key keeps
\* its state, absent keys stay absent) and leaves every other record alone;
\* a step that handles a failed future changes no record.
C10_MergeIsRightBiasedUnion ==
    [][\A i \in 1..Len(futures) :
          (i <= Len(futures') /\ ~futures[i].collected /\ futures'[i].collected) =>
             LET u == futures[i].url
                 res == futures[i].result
             IN  IF Succeeded(i)
                 THEN /\ RightBiasedUnion(book_dict.val[u], res.value, book_dict'.val[u])
                      /\ \A v \in DOMAIN book_dict.val \ {u} :
                            book_dict'.val[v] = book_dict.val[v]
                      /\ book_dict'.keys = book_dict.keys
                 ELSE book_dict' = book_dict]_vars

\* a record whose tax was overwritten by a later result, and one that was
\* merged with a result without category and still has none
C10_Witness ==
    /\ pc = "collect"
    /\ \E i, j \in 1..Len(futures) :
          /\ i # j
          /\ futures[i].url = futures[j].url
          /\ futures[i].collected /\ futures[j].collected
          /\ Succeeded(i) /\ Succeeded(j)
          /\ "tax" \in DOMAIN futures[i].result.value
          /\ "tax" \in DOMAIN futures[j].result.value
          /\ futures[i].result.value.tax # futures[j].result.value.tax
          /\ "category" \in DOMAIN futures[i].result.value
          /\ book_dict.val[futures[i].url].tax = futures[j].result.value.tax
          /\ book_dict.val[futures[i].url].category = "Poetry"
    /\ \E i \in 1..Len(futures) :
          /\ futures[i].collected /\ Succeeded(i)
          /\ "category" \notin DOMAIN futures[i].result.value
          /\ "category" \notin DOMAIN book_dict.val[futures[i].url]
          /\ book_dict.val[futures[i].url].price = [units |-> 9, frac |-> <<"9">>]

(***************************************************************************)
(* Claims about parse_book_card (SpecCard).                                *)
(***************************************************************************)
Parsed == parsed.done /\ parsed.value # <<>>

\* the url a card with this href gets, as a list of at most one url
UrlOfHref(href) == Urls(parse_book_card(CardOf(href, SitePs), config.base_url))

DotsCatalogue3 == <<"..", "..", "..", "catalogue">>
DotsCatalogue2 == <<"..", "..", "catalogue">>

\* C13, as stated: a card whose href is ../../../catalogue/X, or
\* ../../catalogue/X, gets the same url as a card whose href is catalogue/X.
C13_DotsCatalogueSameAsCatalogue ==
    Parsed =>
        LET href == input_card.href
        IN  /\ StartsWith(href, DotsCatalogue3)
               => Urls(parsed.value) = UrlOfHref(SubSeq(href, 4, Len(href)))
            /\ StartsWith(href, DotsCatalogue2)
               => Urls(parsed.value) = UrlOfHref(SubSeq(href, 3, Len(href)))

\* C13, amended: a card whose href is ../../../X gets the same url as a card
\* whose href is catalogue/X, for every path X; so does a card whose href is
\* ../../X, for every path X that does not itself start with ../
C13_DotsSameAsCatalogue ==
    Parsed =>
        LET href == input_card.href
        IN  /\ StartsWith(href, <<"..", "..", "..">>)
               => Urls(parsed.value) = UrlOfHref(<<"catalogue">> \o SubSeq(href, 4, Len(href)))
            /\ StartsWith(href, <<"..", "..">>) /\ href[3] # ".."
               => Urls(parsed.value) = UrlOfHref(<<"catalogue">> \o SubSeq(href, 3, Len(href)))

C13_Witness ==
    /\ Parsed
    /\ input_card.href = DotsCatalogue3 \o <<"a">>
    /\ parsed.value[1].url.path = <<"catalogue", "catalogue", "a">>
    /\ UrlOfHref(<<"catalogue", "a">>)[1].path = <<"catalogue", "a">>

\* the availability element of the card and its text
StockElem == FindStock(input_card.ps)
StockText == IF StockElem = <<>> THEN <<>> ELSE StockElem[1].text

\* text[i] = "(", the digits end at j, then spaces, then available and ")"
CountAt(text, i, j) ==
    /\ text[i] = "(" /\ i < j
    /\ \A d \in (i + 1)..j : IsDigit(text[d])
    /\ \E k \in (j + 1)..(Len(text) - 2) :
          /\ \A w \in (j + 1)..k : IsSpace(text[w])
          /\ text[k + 1] \in {"available", "Available"}
          /\ text[k + 2] = ")"

\* i..j is a whole run of digits
DigitRun(text, i, j) ==
    /\ i <= j
    /\ \A d \in i..j : IsDigit(text[d])
    /\ i = 1 \/ ~IsDigit(text[i - 1])
    /\ j = Len(text) \/ ~IsDigit(text[j + 1])

StockOf(text, n) ==
    LET I == 1..Len(text)
    IN  IF \E i, j \in I : CountAt(text, i, j)
        THEN \E i, j \in I :
                /\ CountAt(text, i, j)
                /\ \A i2, j2 \in I : CountAt(text, i2, j2) => i <= i2
                /\ n = IntOf(SubSeq(text, i + 1, j))
        ELSE IF \E i \in I : IsDigit(text[i])
        THEN \E i, j \in I :
                /\ DigitRun(text, i, j)
                /\ \A d \in 1..(i - 1) : ~IsDigit(text[d])
                /\ n = IntOf(SubSeq(text, i, j))
        ELSE n = 0

InStock19 == <<"In stock", " ", "(", "1", "9", " ", "available", ")">>

\* C16: stock is the N of the first (N available), whatever the case of the
\* word, else the first run of digits of the text, else 0; In stock (19
\* available) gives 19, Out of stock gives 0, and stock is never negative.
C16_StockCount ==
    Parsed =>
        /\ StockOf(StockText, parsed.value[1].stock)
        /\ parsed.value[1].stock >= 0
        /\ StockText = InStock19 => parsed.value[1].stock = 19
        /\ StockText = <<"Out of stock">> => parsed.value[1].stock = 0

C16_Witness ==
    /\ Parsed
    /\ StockText = <<"7", "(", "1", "9", " ", "Available", ")">>
    /\ parsed.value[1].stock = 19

\* C17: in_stock is true exactly when the availability element exists and
\* its classes hold instock, or its text holds available or in stock in any
\* case; In stock (19 available) gives true, Out of stock without the class
\* gives false.
C17_InStockIffMarkerOrWords ==
    Parsed =>
        /\ parsed.value[1].in_stock
           <=> /\ StockElem # <<>>
               /\ \/ \E i \in 1..Len(StockElem[1].classes) : StockElem[1].classes[i] = "instock"
                  \/ \E i \in 1..Len(StockText) :
                        StockText[i] \in {"available", "Available", "unavailable", "In stock"}
        /\ StockText = InStock19 => parsed.value[1].in_stock
        /\ StockElem # <<>> /\ StockElem[1].classes = <<"availability">>
              /\ StockText = <<"Out of stock">>
           => ~parsed.value[1].in_stock

C17_Witness ==
    /\ Parsed
    /\ StockElem # <<>>
    /\ StockElem[1].classes = <<"availability">>
    /\ StockText = <<"unavailable">>
    /\ parsed.value[1].in_stock

\* the class tokens of the rating element, none when it is absent
RatingClasses ==
    LET elem == Find(input_card.ps, "star-rating")
    IN  IF elem = <<>> THEN <<>> ELSE elem[1].classes

RatingWords == <<"Zero", "One", "Two", "Three", "Four", "Five">>

\* C18: rating is the value of the first class token that is a rating word,
\* 0 when there is none or no rating element; [star-rating, Three] gives 3,
\* [star-rating] gives 0, and rating is in 0..5.
C18_RatingOfFirstWord ==
    Parsed =>
        LET rating == parsed.value[1].rating
            I == 1..Len(RatingClasses)
        IN  /\ IF \E i \in I : InSeq(RatingClasses[i], RatingWords)
               THEN \E i \in I :
                       /\ RatingWords[rating + 1] = RatingClasses[i]
                       /\ \A k \in 1..(i - 1) : ~InSeq(RatingClasses[k], RatingWords)
               ELSE rating = 0
            /\ rating \in 0..5
            /\ RatingClasses = <<"star-rating", "Three">> => rating = 3
            /\ RatingClasses = <<"star-rating">> => rating = 0

C18_Witness ==
    /\ Parsed
    /\ RatingClasses = <<"star-rating", "Five", "Three">>
    /\ parsed.value[1].rating = 5

\* the text of the price element, empty when it is absent
PriceText ==
    LET elem == Find(input_card.ps, "price_color")
    IN  IF elem = <<>> THEN <<>> ELSE elem[1].text

\* C19: a card with its heading always yields a record, and its price is the
\* value of the first run of digits and points of the price text, 0.0 when
\* the element is absent, the text has no run or the run is no number.
C19_PriceOrZeroAndRecord ==
    parsed.done /\ input_card.heading =>
        /\ parsed.value # <<>>
        /\ LET run == SearchRun(PriceText, "[\\d.]")
           IN  parsed.value[1].price =
                  IF run = <<>> \/ ~FloatParses(run[1]) THEN ZeroFloat ELSE FloatOf(run[1])

(***************************************************************************)
(* Claims about the crawl as a whole (SpecCrawl, SpecWalk, SpecEnrich).    *)
(***************************************************************************)
\* the while loop of the walk has ended: no next page, or the break
WalkOver == current_url = NoUrl \/ BreakAtCap(max_pages, page_num)

\* C14: in a detailed crawl a step that submits, starts or ends a detail task
\* is taken only when the walk is over and fetches no catalog page, and a
\* step that fetches a catalog page is taken only while no task exists.
C14_PassesAreSequential ==
    [][/\ futures' # futures
          => /\ WalkOver /\ fetchLog' = fetchLog
             /\ detail_urls = Urls(BooksOfFetches(fetchLog, Len(fetchLog)))
       /\ fetchLog' # fetchLog
          => pc = "walk" /\ futures = <<>> /\ futures' = <<>>]_vars

C14_Witness ==
    /\ pc = "collect"
    /\ Len(fetchLog) = 2
    /\ fetchLog[2].books # <<>>
    /\ \E i \in 1..Len(futures) : futures[i].state = "done"
    /\ \E i \in 1..Len(futures) : futures[i].state = "queued"

RECURSIVE RecordsOfCards(_)
RecordsOfCards(cards) ==
    IF cards = <<>> THEN <<>>
    ELSE RecordsOfCards(DropLast(cards))
         \o parse_book_card(cards[Len(cards)], config.base_url)

RECURSIVE RecordsOfLog(_)
RecordsOfLog(n) ==
    IF n = 0 THEN <<>> ELSE RecordsOfLog(n - 1) \o RecordsOfCards(fetchLog[n].cards)

\* C15: the basic crawl returns the records of the cards of the fetched pages,
\* as parse_book_card built them: page after page in the order of the fetches,
\* and within a page in the order of its cards.
C15_BasicCrawlKeepsWalkOrder ==
    pc = "done" /\ ~get_detailed => books_data = RecordsOfLog(Len(fetchLog))

C15_Witness ==
    /\ pc = "done"
    /\ ~get_detailed
    /\ Len(fetchLog) = 2
    /\ fetchLog[1].cards = <<BadCard, CardB>>
    /\ fetchLog[2].cards = <<CardA, CardB>>
    /\ Len(books_data) = 3
    /\ books_data[1].url.path = <<"catalogue", "b">>
    /\ books_data[2].url.path = <<"catalogue", "a">>

\* C11: no two records of the returned list have the same url.
C11_ReturnedUrlsDistinct ==
    pc = "done" =>
        \A m, n \in 1..Len(books_data) : m # n => books_data[m].url # books_data[n].url

\* C12: from the moment book_dict is built, the record of every key has that
\* key as its url, whatever the detail tasks returned, and so has every record
\* of the returned list.
C12_MergeKeepsUrl ==
    /\ pc \in {"collect", "done"}
       => \A i \in 1..Len(all_books) :
             book_dict.val[all_books[i].url].url = all_books[i].url
    /\ pc = "done"
       => \A n \in 1..Len(books_data) : books_data[n].url = book_dict.keys[n]

C12_Witness ==
    /\ pc = "done"
    /\ \E n \in 1..Len(books_data) :
          /\ books_data[n].url = all_books[1].url
          /\ books_data[n].title = "page title"
          /\ books_data[n].stock = 3
          /\ "category" \in DOMAIN books_data[n]
          /\ all_books[1].stock = 19

(***************************************************************************)
(* Claims about the executor (SpecPool).                                   *)
(***************************************************************************)
\* C20: never more than MAX_WORKERS_VALUE tasks are running, a task starts
\* only when fewer than that many are running, and every submitted task is
\* finished in the end.
C20_PoolWidthBoundsRunningTasks ==
    /\ [](pool.running <= MAX_WORKERS_VALUE)
    /\ [][pool'.running > pool.running => pool.running < MAX_WORKERS_VALUE]_vars
    /\ <>(pool.queued = 0 /\ pool.running = 0)

C20_Witness ==
    /\ pool.running = MAX_WORKERS_VALUE
    /\ pool.queued = 2

(***************************************************************************)
(* Further claims about make_request (SpecFetch).                          *)
(***************************************************************************)
\* C27: every sleep of a call stands between two GETs, after a retryable
\* failure: the first event is a GET, a call that has returned ends in a GET,
\* and a call whose attempts all failed retryably has slept max_retries times.
C27_SleepsOnlyBetweenAttempts ==
    /\ \A i \in 1..Len(trace) :
          IsSleep(trace[i]) =>
             /\ i > 1 /\ IsGet(trace[i - 1]) /\ RetryableFailure(trace[i - 1].out)
             /\ i < Len(trace) => IsGet(trace[i + 1])
             /\ i = Len(trace) => f_pc = "loop"
    /\ (f_pc = "returned" /\ \A i \in 1..Len(Gets) : RetryableFailure(Gets[i].out))
          => Len(Sleeps) = config.max_retries
    /\ f_pc = "returned" => Len(Sleeps) = Len(Gets) - 1

C27_Witness ==
    /\ f_pc = "returned"
    /\ result = "None"
    /\ config.max_retries = 2
    /\ Len(trace) = 5
    /\ IsSleep(trace[4])
    /\ RetryableFailure(trace[5].out)

\* a status that is neither 200 nor a server error
OtherStatus(o) == o.exc = "none" /\ o.code # 200 /\ o.code \notin 500..599

\* C28: a GET answered with a status other than 200 and 500..599 is the last
\* event of the call, which has returned None; a call returns a response only
\* when its last GET was answered with 200.
C28_OnlyStatus200IsAResponse ==
    /\ \A i \in 1..Len(trace) :
          (IsGet(trace[i]) /\ OtherStatus(trace[i].out))
             => (i = Len(trace) /\ f_pc = "returned" /\ result = "None")
    /\ result = "response"
          => /\ IsGet(trace[Len(trace)])
             /\ trace[Len(trace)].out = [exc |-> "none", code |-> 200]

C28_Witness ==
    /\ f_pc = "returned"
    /\ result = "None"
    /\ Len(Gets) = 2
    /\ config.max_retries = 3
    /\ Gets[1].out.code = 500
    /\ Gets[2].out.code = 101

(***************************************************************************)
(* Further claims about the enrichment pass (SpecEnrich).                  *)
(***************************************************************************)
\* the tasks of url u whose non-empty result was merged into book_dict
MergedTasksOf(u) == {i \in TasksOf(u) : futures[i].collected /\ Succeeded(i)}

\* C21: once the detail tasks are submitted, every url of the base records
\* has at most one task, and at most one result merged into its record.
C21_OneTaskAndOneMergePerUrl ==
    pc \in {"collect", "done"} =>
        \A u \in UrlSet(all_books) :
            /\ Cardinality(TasksOf(u)) <= 1
            /\ Cardinality(MergedTasksOf(u)) <= 1

\* the urls of a list in the order of their first occurrence
RECURSIVE FirstOccurrences(_)
FirstOccurrences(urls) ==
    IF urls = <<>> THEN <<>>
    ELSE LET n == Len(urls)
             before == FirstOccurrences(SubSeq(urls, 1, n - 1))
         IN  IF InSeq(urls[n], before) THEN before ELSE Append(before, urls[n])

\* C25: in whatever order the detail tasks end and are handled, the keys of
\* book_dict stay in the order in which the walk first extracted each url,
\* and the returned records are in that order.
C25_ReturnOrderIsFirstExtraction ==
    /\ pc \in {"collect", "done"} => book_dict.keys = FirstOccurrences(detail_urls)
    /\ pc = "done" =>
          /\ Urls(books_data) = FirstOccurrences(detail_urls)
          /\ Urls(books_data) = FirstOccurrences(Urls(all_books))

\* the task of the second url was merged while the first is still running,
\* and the url extracted first and third is still first
C25_Witness ==
    /\ pc = "collect"
    /\ Len(futures) = 3
    /\ futures[1].url = futures[3].url
    /\ futures[1].url # futures[2].url
    /\ futures[1].state = "running"
    /\ futures[2].collected /\ Succeeded(2)
    /\ futures[3].collected /\ Succeeded(3)
    /\ book_dict.keys = <<futures[1].url, futures[2].url>>
    /\ "tax" \in DOMAIN book_dict.val[futures[1].url]

\* the futures the step hands to the body of the as_completed loop
NewlyCollected ==
    {i \in 1..Len(futures) :
        i <= Len(futures') /\ ~futures[i].collected /\ futures'[i].collected}

\* a worker thread acts in the step: a task is started or ended
WorkerStep ==
    \E i \in 1..Len(futures) : i <= Len(futures') /\ futures'[i].state # futures[i].state

\* C26: book_dict is written by the coordinating thread alone: a step in
\* which a worker starts or ends a task leaves it unchanged, a step handles at
\* most one future, and after Submit book_dict changes only in a step that
\* handles one future, no worker acting, and applies that future's whole
\* result to the record of its url.
C26_OnlyTheCoordinatorWritesTheIndex ==
    [][pc = "collect" =>
          /\ WorkerStep => (book_dict' = book_dict /\ NewlyCollected = {})
          /\ Cardinality(NewlyCollected) <= 1
          /\ book_dict' # book_dict =>
                \E i \in NewlyCollected :
                    /\ ~WorkerStep
                    /\ futures[i].state = "done"
                    /\ book_dict' = MergeResult(book_dict, futures[i].url,
                                                futures[i].result)]_vars

\* a result was merged while another task is running and a third one has
\* ended and waits to be handled
C26_Witness ==
    /\ pc = "collect"
    /\ Len(futures) = 3
    /\ futures[2].collected /\ Succeeded(2)
    /\ "category" \in DOMAIN book_dict.val[futures[2].url]
    /\ futures[1].state = "running"
    /\ futures[3].state = "done" /\ ~futures[3].collected /\ Succeeded(3)
    /\ futures[3].url # futures[2].url
    /\ "tax" \notin DOMAIN book_dict.val[futures[3].url]

(***************************************************************************)
(* Further claims about the page walk (SpecWalk).                          *)
(***************************************************************************)
\* the cards whose h3/a exists
WithHeading(cards) == SelectSeq(cards, LAMBDA c : c.heading)

\* C24: when a page was fetched, scrape_page returns one record for every
\* card that has its heading, in the order of the cards, none for a card
\* without it, and the page's next link (none when the page has none).
C24_BadCardIsSkipped ==
    [][Len(fetchLog') = Len(fetchLog) + 1 =>
          LET e == fetchLog'[Len(fetchLog')]
              good == WithHeading(e.cards)
          IN  e.ok =>
                 /\ Len(e.books) = Len(good)
                 /\ \A k \in 1..Len(good) :
                       <<e.books[k]>> = parse_book_card(good[k], config.base_url)
                 /\ current_url'.page = site[e.page]
                 /\ (site[e.page] = 0) = (current_url' = NoUrl)]_vars

\* a page whose first card has no heading gave the record of its second card
\* and its next link
C24_Witness ==
    /\ pc = "walk"
    /\ Len(fetchLog) = 1
    /\ fetchLog[1].ok
    /\ fetchLog[1].cards = <<BadCard, CardB>>
    /\ Len(fetchLog[1].books) = 1
    /\ fetchLog[1].books[1].url.path = <<"catalogue", "b">>
    /\ site[1] = 2
    /\ current_url = [http |-> TRUE, page |-> 2]

\* C23: the walk terminates on every catalog.  With no page cap in force the
\* loop's only state is current_url, so a walk that terminates never fetches
\* a page a second time: one that does is back where it was and, the fetches
\* succeeding, goes round for ever.
C23_WalkNeverRevisitsAPage ==
    max_pages = NoneValue =>
        \A i, j \in 1..Len(fetchLog) :
            i # j => fetchLog[i].page # fetchLog[j].page

(***************************************************************************)
(* The result-wait timeout (SpecSlow).                                     *)
(***************************************************************************)
\* C22: a detail task that lasted longer than the timeout of future.result is
\* treated as failed: the step that handles its future discards the result
\* and leaves every record as it was.
C22_SlowTaskIsDiscarded ==
    [][\A i \in NewlyCollected : futures[i].slow => book_dict' = book_dict]_vars

====
